---- MODULE Spec2Model ----
(***************************************************************************)
(* State-machine model of the scheduling core: the RealTimeSimClock        *)
(* (src/src/time/real_time_sim_clock.rs) with the SimTime / TimeDuration   *)
(* arithmetic it rests on, and the scheduler actor with its handle         *)
(* (src/src/scheduler/internal.rs).                                        *)
(*                                                                         *)
(* Units.  Wall instants (WallTime) and wall durations (TimeDuration) are  *)
(* whole milliseconds; simulation time (SimTime) is microseconds, as in    *)
(* the source.  A SimTime is a u64: the model writes a u64 value v as the  *)
(* integer v when v is small and as v - 2^64 (a negative integer) when a   *)
(* wrapped addition produced it, and orders the two kinds as u64 does.     *)
(* An Option is a sequence: <<>> is None and <<x>> is Some(x).             *)
(***************************************************************************)
EXTENDS Integers, Sequences, FiniteSets, Bags

VARIABLES
    wall,       \* the wall clock read by WallTime::now(), in milliseconds
    clock,      \* the RealTimeSimClock behind Arc<RwLock<_>>: its six fields
    cmds,       \* every command accepted by the command channel, in send order
    rcvd,       \* how many of them the actor has received: the inbox is the rest
    closed,     \* the command receiver is closed or dropped: sends fail
    result,     \* what the last call on the handle returned: "Ok" or "Err"
    handle,     \* the SchedulerHandle, the only command sender, is alive
    events,     \* run(): the BinaryHeap of pending events, a bag
    notify,     \* run(): the Notify holds a permit
    sleep_time, \* run(): Option<Duration>, milliseconds
    deadline,   \* the instant the pending select!'s sleep elapses, an Option
    pc,         \* the actor's position: "select", "delay", "done", "failed"
    outbox,     \* the notifications sent on event_sender, in order
    subscriber, \* the receiving half of the notification channel is alive
    timely_cancel \* history: the names cancelled on the handle before any
                \* scheduled event of that name was due on the clock

vars == <<wall, clock, cmds, rcvd, closed, result, handle, events, notify,
          sleep_time, deadline, pc, outbox, subscriber, timely_cancel>>

schedVars == <<cmds, rcvd, closed, result, handle, events, notify, sleep_time,
               deadline, pc, outbox, subscriber, timely_cancel>>

---------------------------------------------------------------------------
(* Bounds of the model *)

\* the wall clock runs from 0 to MaxWall milliseconds
MaxWall == 2
\* at most MaxCmds commands are accepted by the command channel
MaxCmds == 3
\* the later of the two scheduled events is due at MaxTime milliseconds
MaxTime == 2

\* SimTime::from_millis: microseconds per millisecond
MicrosPerMilli == 1000

None == <<>>
Some(x) == <<x>>

---------------------------------------------------------------------------
(* Time arithmetic: sim_time.rs, real_time.rs *)

\* `as i64` of a float quotient, and chrono's num_milliseconds: truncation
\* towards zero, for a divisor of either sign
TruncDiv(a, b) ==
    LET abs(x) == IF x >= 0 THEN x ELSE -x
        q == abs(a) \div abs(b)
    IN  IF (a < 0) = (b < 0) THEN q ELSE -q

\* the derived Ord of SimTime(u64): a wrapped value is above every small one
SimLe(a, b) ==
    IF a >= 0 /\ b >= 0 THEN a <= b
    ELSE IF a < 0 /\ b < 0 THEN a <= b
    ELSE a >= 0

SimLt(a, b) == SimLe(a, b) /\ a # b

\* impl Mul<f64> for TimeDuration: microseconds, times the factor, floored.
\* The factor is the rational num/den.
DurationMul(ms, dilation) ==
    (ms * MicrosPerMilli * dilation.num) \div dilation.den

\* impl Add<TimeDuration> for SimTime: self.0 + micros as u64, wrapping
SimAdd(t, micros) == t + micros

\* the u64 addition of SimAdd overflows: a negative micros is cast to
\* 2^64 + micros, and t + 2^64 + micros is 2^64 or more.  A build with overflow
\* checks panics there; one without returns the wrapped sum t + micros.
AddOverflows(t, micros) == micros < 0 /\ t + micros >= 0

\* a subtraction with its operands exchanged
SimSub_Reversed(a, b) == IF SimLe(a, b) THEN b - a ELSE 0

\* impl Sub for SimTime: the difference as a duration, zero when rhs is later
SimSub(a, b) == IF SimLe(b, a) THEN a - b ELSE 0

---------------------------------------------------------------------------
(* RealTimeSimClock: real_time_sim_clock.rs *)

\* the factors a controller means to run at: half speed, real time, double speed
Dilations == {[num |-> 1, den |-> 2], [num |-> 1, den |-> 1], [num |-> 2, den |-> 1]}

\* a factor a caller can also pass, start() taking any f64: -1.0.  (0.0 is left
\* out: a quotient by it saturates at i64::MAX, beyond the integers used here.)
NonPositiveDilations == {[num |-> -1, den |-> 1]}

\* Default for RealTimeSimClock, constructed at wall instant w
DefaultClock(w) ==
    [simulation_start_time |-> w,
     relative_start_time   |-> 0,
     paused_time           |-> 0,
     time_dilation         |-> [num |-> 1, den |-> 1],
     state                 |-> "Stopped",
     pause_start_time      |-> None]

\* a now() that leaves the pause in progress out of the execution time
ExecutionMicros_IgnoresPause(c, w) ==
    DurationMul(w - c.simulation_start_time - c.paused_time, c.time_dilation)

\* Clock::now at wall instant w: execution_time * time_dilation, microseconds
ExecutionMicros(c, w) ==
    LET current_pause == IF c.pause_start_time # None
                         THEN w - c.pause_start_time[1]
                         ELSE 0
        execution_time == w - c.simulation_start_time - c.paused_time - current_pause
    IN  DurationMul(execution_time, c.time_dilation)

\* Clock::now at wall instant w
Now(c, w) == SimAdd(c.relative_start_time, ExecutionMicros(c, w))

\* SimClock::elapsed at wall instant w, microseconds
Elapsed(c, w) == SimSub(Now(c, w), c.relative_start_time)

\* impl Div<f64> for SimDuration: whole milliseconds over the factor, truncated
SimDurationDiv(micros, dilation) ==
    TruncDiv(TruncDiv(micros, MicrosPerMilli) * dilation.den, dilation.num)

\* Clock::delay_time at wall instant w, milliseconds
DelayTimeOf(c, w, then) ==
    LET delta == SimDurationDiv(SimSub(then, Now(c, w)), c.time_dilation)
    IN  IF delta > 0 THEN delta ELSE 0

\* the arguments start() and offset_by() are called with
StartTimeInputs == 0..MaxWall
RelativeStartInputs == {0, MicrosPerMilli}
PauseTimeInputs == {0, 1}
OffsetInputs == {-1, 1}
\* the targets delay_time() is asked about: every half millisecond up to MaxTime
ThenInputs == {k * (MicrosPerMilli \div 2) : k \in 0..(2 * MaxTime)}

\* SimClock::start
Start(simulation_start_time, relative_start_time, elapsed_pause_time, time_dilation) ==
    /\ clock' = [simulation_start_time |-> simulation_start_time,
                 relative_start_time   |-> relative_start_time,
                 paused_time           |-> elapsed_pause_time,
                 time_dilation         |-> time_dilation,
                 state                 |-> "Paused",
                 pause_start_time      |-> Some(wall)]
    /\ UNCHANGED <<wall, schedVars>>

\* start() with any of the modelled arguments
StartStep ==
    \E sst \in StartTimeInputs, rst \in RelativeStartInputs,
       ept \in PauseTimeInputs, dil \in Dilations \cup NonPositiveDilations :
          Start(sst, rst, ept, dil)

\* SimClock::offset_by; the start anchor is kept within the modelled instants
OffsetBy(by) ==
    /\ clock.simulation_start_time + by \in 0..MaxWall
    /\ clock' = [clock EXCEPT !.simulation_start_time = @ + by]
    /\ UNCHANGED <<wall, schedVars>>

\* SimClock::pause
Pause ==
    /\ clock' = [clock EXCEPT !.state = "Paused",
                              !.pause_start_time = Some(wall)]
    /\ UNCHANGED <<wall, schedVars>>

\* a resume() that does not add the pause to the paused time
Resumed_ForgetsPause(c, w) ==
    [c EXCEPT !.state = "Running", !.pause_start_time = None]

\* a resume() that ends the pause but leaves a Stopped clock Stopped
Resumed_NotFromStopped(c, w) ==
    [c EXCEPT !.paused_time = @ + (w - (IF c.pause_start_time # None
                                        THEN c.pause_start_time[1]
                                        ELSE w)),
              !.state = IF @ = "Stopped" THEN "Stopped" ELSE "Running",
              !.pause_start_time = None]

\* SimClock::resume at wall instant w: the clock it leaves
Resumed(c, w) ==
    [c EXCEPT !.paused_time = @ + (w - (IF c.pause_start_time # None
                                        THEN c.pause_start_time[1]
                                        ELSE w)),
              !.state = "Running",
              !.pause_start_time = None]

\* SimClock::resume
Resume ==
    /\ clock' = Resumed(clock, wall)
    /\ UNCHANGED <<wall, schedVars>>

\* SimClock::stop
ClockStop ==
    /\ clock' = [clock EXCEPT !.pause_start_time = Some(wall),
                              !.state = "Stopped"]
    /\ UNCHANGED <<wall, schedVars>>

\* one millisecond of wall time passes
Tick ==
    /\ wall < MaxWall
    /\ wall' = wall + 1
    /\ UNCHANGED <<clock, schedVars>>

---------------------------------------------------------------------------
(* Events and commands: event.rs, internal.rs *)

Names == {"A", "B"}

\* The events the caller schedules: A, due at MaxTime ms, and B, due at 1 ms.
\* An event carries its name, its execution time and the step its next_time()
\* adds: a step of 0 is an event whose next_time() does not advance (a
\* one-shot event), a step of 1 ms one that recurs every millisecond.
EventInputs ==
    {[name |-> n, time |-> (IF n = "A" THEN MaxTime ELSE 1) * MicrosPerMilli, period |-> p] :
        n \in Names, p \in {0, MicrosPerMilli}}

\* Event::next_time
NextTime(e) == [e EXCEPT !.time = e.time + e.period]

\* EventNotification { name, time }
Notification(task) == [name |-> task.name, time |-> task.time]

\* SchedulerCommand
ScheduleCmd(e) == [type |-> "Schedule", event |-> e]
CancelCmd(name) == [type |-> "Cancel", name |-> name]
StopCmd == [type |-> "Stop"]

---------------------------------------------------------------------------
(* SchedulerHandle: internal.rs *)

\* a send that the channel takes whether or not the receiver is closed
Send_IgnoresClosed(cmd) ==
    /\ handle
    /\ Len(cmds) < MaxCmds
    /\ cmds' = Append(cmds, cmd)
    /\ result' = "Ok"

\* UnboundedSender::send, on a handle that is alive: fails once the receiver
\* is closed or dropped
Send(cmd) ==
    /\ handle
    /\ IF closed
       THEN /\ result' = "Err"
            /\ UNCHANGED cmds
       ELSE /\ Len(cmds) < MaxCmds
            /\ cmds' = Append(cmds, cmd)
            /\ result' = "Ok"

\* the events of a name that the channel has accepted so far
SentEvents(name) ==
    {cmds[i].event : i \in {j \in 1..Len(cmds) :
                              cmds[j].type = "Schedule" /\ cmds[j].event.name = name}}

\* SchedulerHandle::schedule
Schedule(event) ==
    /\ Send(ScheduleCmd(event))
    /\ timely_cancel' = IF closed THEN timely_cancel ELSE timely_cancel \ {event.name}
    /\ UNCHANGED <<wall, clock, rcvd, closed, handle, events, notify, sleep_time,
                   deadline, pc, outbox, subscriber>>

\* SchedulerHandle::cancel_scheduled_event
CancelScheduledEvent(name) ==
    /\ Send(CancelCmd(name))
    /\ timely_cancel' =
          IF /\ ~closed
             /\ SentEvents(name) # {}
             /\ \A e \in SentEvents(name) : SimLt(Now(clock, wall), e.time)
          THEN timely_cancel \cup {name}
          ELSE timely_cancel
    /\ UNCHANGED <<wall, clock, rcvd, closed, handle, events, notify, sleep_time,
                   deadline, pc, outbox, subscriber>>

\* SchedulerHandle::stop
HandleStop ==
    /\ Send(StopCmd)
    /\ UNCHANGED <<wall, clock, rcvd, closed, handle, events, notify, sleep_time,
                   deadline, pc, outbox, subscriber, timely_cancel>>

\* the caller drops the receiving half of the notification channel
DropSubscriber ==
    /\ subscriber
    /\ subscriber' = FALSE
    /\ UNCHANGED <<wall, clock, cmds, rcvd, closed, result, handle, events,
                   notify, sleep_time, deadline, pc, outbox, timely_cancel>>

\* the caller drops the SchedulerHandle: the command channel has no sender left
DropHandle ==
    /\ handle
    /\ handle' = FALSE
    /\ UNCHANGED <<wall, clock, cmds, rcvd, closed, result, events, notify,
                   sleep_time, deadline, pc, outbox, subscriber, timely_cancel>>

---------------------------------------------------------------------------
(* Scheduler::run: internal.rs *)

\* events.push(Reverse(evt))
Push(heap, evt) == heap (+) SetToBag({evt})

\* a retain that keeps every entry
Retain_KeepsAll(heap, name) == heap

\* a retain with the test inverted: it keeps the entries of the name
Retain_Inverted(heap, name) ==
    [e \in {x \in DOMAIN heap : x.name = name} |-> heap[e]]

\* events.retain(|Reverse(evt)| evt.name() != name)
Retain(heap, name) ==
    [e \in {x \in DOMAIN heap : x.name # name} |-> heap[e]]

\* a Stop that leaves the heap as it is
Clear_KeepsAll(heap) == heap

\* events.clear()
Clear(heap) == EmptyBag

\* a peek without the Reverse wrapper: an entry no other entry is later than
Peek_Latest(heap) ==
    {e \in BagToSet(heap) : \A o \in BagToSet(heap) : SimLe(o.time, e.time)}

\* events.peek(): an entry no other entry is earlier than.  The order among
\* entries of one execution time is the Event implementation's.
Peek(heap) ==
    {e \in BagToSet(heap) : \A o \in BagToSet(heap) : SimLe(e.time, o.time)}

\* a pop that pushes next_time() back when it is later than the popped event's
\* own time, whatever now is
PopAndReinsert_IfAdvanced(heap, task, now) ==
    LET rest == heap (-) SetToBag({task})
        next_time == NextTime(task)
    IN  IF SimLt(task.time, next_time.time) THEN Push(rest, next_time) ELSE rest

\* a pop that never pushes next_time() back
PopAndReinsert_Never(heap, task, now) == heap (-) SetToBag({task})

\* events.pop() of the peeked task, and the push of its next_time() when that
\* is later than now
PopAndReinsert(heap, task, now) ==
    LET rest == heap (-) SetToBag({task})
        next_time == NextTime(task)
    IN  IF SimLt(now, next_time.time) THEN Push(rest, next_time) ELSE rest

\* a drain that takes for due what is due a millisecond after the sampled now
RECURSIVE Drain_Early(_, _, _, _)
Drain_Early(heap, now, sent, alive) ==
    IF heap = EmptyBag
    THEN {[events |-> heap, sent |-> sent, pc |-> "select"]}
    ELSE UNION {
           IF SimLe(task.time, now + MicrosPerMilli)
           THEN IF alive
                THEN Drain_Early(PopAndReinsert(heap, task, now + MicrosPerMilli), now,
                                 Append(sent, Notification(task)),
                                 alive)
                ELSE {[events |-> PopAndReinsert(heap, task, now + MicrosPerMilli),
                       sent |-> sent, pc |-> "failed"]}
           ELSE {[events |-> heap, sent |-> sent, pc |-> "delay"]}
           : task \in Peek(heap)}

\* a drain that ignores the result of event_sender.send and goes on
RECURSIVE Drain_IgnoresSendError(_, _, _, _)
Drain_IgnoresSendError(heap, now, sent, alive) ==
    IF heap = EmptyBag
    THEN {[events |-> heap, sent |-> sent, pc |-> "select"]}
    ELSE UNION {
           IF SimLe(task.time, now)
           THEN Drain_IgnoresSendError(PopAndReinsert(heap, task, now), now,
                                       IF alive THEN Append(sent, Notification(task))
                                                ELSE sent,
                                       alive)
           ELSE {[events |-> heap, sent |-> sent, pc |-> "delay"]}
           : task \in Peek(heap)}

\* The while-let loop of the notified branch, from a heap and the sampled now:
\* every way it can end, as the heap it leaves, the notifications it sent and
\* where the actor goes on: "select" (the heap is empty), "delay" (the
\* earliest entry is not due: delay_time is asked next) or "failed" (a send
\* on event_sender failed and run() returned the error).
RECURSIVE Drain(_, _, _, _)
Drain(heap, now, sent, alive) ==
    IF heap = EmptyBag
    THEN {[events |-> heap, sent |-> sent, pc |-> "select"]}
    ELSE UNION {
           IF SimLe(task.time, now)
           THEN IF alive
                THEN Drain(PopAndReinsert(heap, task, now), now,
                           Append(sent, Notification(task)),
                           alive)
                ELSE {[events |-> PopAndReinsert(heap, task, now),
                       sent |-> sent, pc |-> "failed"]}
           ELSE {[events |-> heap, sent |-> sent, pc |-> "delay"]}
           : task \in Peek(heap)}

\* a sleep that never elapses, whatever sleep_time holds
SleepDeadline_Never(duration, w) == None

\* The sleep branch of a select! entered at wall instant w: tokio::time::sleep
\* of sleep_time elapses at w + sleep_time; a sleep of Duration::MAX never does
SleepDeadline(duration, w) ==
    IF duration = None THEN None ELSE Some(w + duration[1])

\* a recv branch whose Schedule arm pushes without notify_one()
RecvCommand_NoNotify ==
    /\ pc = "select"
    /\ rcvd < Len(cmds)
    /\ rcvd' = rcvd + 1
    /\ LET task == cmds[rcvd + 1]
       IN  CASE task.type = "Schedule" ->
                  /\ events' = Push(events, task.event)
                  /\ UNCHANGED <<notify, closed, pc>>
             [] task.type = "Cancel" ->
                  /\ events' = Retain(events, task.name)
                  /\ UNCHANGED <<notify, closed, pc>>
             [] task.type = "Stop" ->
                  /\ events' = Clear(events)
                  /\ closed' = TRUE
                  /\ pc' = "done"
                  /\ UNCHANGED notify
    /\ deadline' = IF pc' = "select" THEN SleepDeadline(sleep_time, wall) ELSE None
    /\ UNCHANGED <<wall, clock, cmds, result, handle, sleep_time, outbox,
                   subscriber, timely_cancel>>

\* select!: command_receiver.recv() yields a command.  With the handle dropped
\* and the channel empty recv() yields None, which does not match Some(task):
\* select! disables the branch and goes on waiting for the other two, so no
\* step of the actor answers the closing of the channel.
RecvCommand ==
    /\ pc = "select"
    /\ rcvd < Len(cmds)
    /\ rcvd' = rcvd + 1
    /\ LET task == cmds[rcvd + 1]
       IN  CASE task.type = "Schedule" ->
                  /\ events' = Push(events, task.event)
                  /\ notify' = TRUE
                  /\ UNCHANGED <<closed, pc>>
             [] task.type = "Cancel" ->
                  /\ events' = Retain(events, task.name)
                  /\ UNCHANGED <<notify, closed, pc>>
             [] task.type = "Stop" ->
                  /\ events' = Clear(events)
                  /\ closed' = TRUE
                  /\ pc' = "done"
                  /\ UNCHANGED notify
    /\ deadline' = IF pc' = "select" THEN SleepDeadline(sleep_time, wall) ELSE None
    /\ UNCHANGED <<wall, clock, cmds, result, handle, sleep_time, outbox,
                   subscriber, timely_cancel>>

\* a notified branch without the is_empty() test after the loop
Notified_KeepsSleep ==
    /\ pc = "select"
    /\ notify
    /\ notify' = FALSE
    /\ \E end \in Drain(events, Now(clock, wall), <<>>, subscriber) :
          /\ events' = end.events
          /\ outbox' = outbox \o end.sent
          /\ pc' = end.pc
          /\ closed' = (closed \/ end.pc = "failed")
    /\ deadline' = None
    /\ UNCHANGED <<wall, clock, cmds, rcvd, result, handle, sleep_time, subscriber,
                   timely_cancel>>

\* select!: notify.notified() completes; now is read once and the heap drained
Notified ==
    /\ pc = "select"
    /\ notify
    /\ notify' = FALSE
    /\ \E end \in Drain(events, Now(clock, wall), <<>>, subscriber) :
          /\ events' = end.events
          /\ outbox' = outbox \o end.sent
          /\ pc' = end.pc
          /\ closed' = (closed \/ end.pc = "failed")
          /\ sleep_time' = IF end.pc = "select" THEN None ELSE sleep_time
    /\ deadline' = None
    /\ UNCHANGED <<wall, clock, cmds, rcvd, result, handle, subscriber,
                   timely_cancel>>

\* the else branch of the loop: delay_time of the peeked entry becomes the
\* sleep time, and the loop breaks
DelayTime ==
    /\ pc = "delay"
    /\ \E task \in Peek(events) :
          sleep_time' = Some(DelayTimeOf(clock, wall, task.time))
    /\ pc' = "select"
    /\ deadline' = SleepDeadline(sleep_time', wall)
    /\ UNCHANGED <<wall, clock, cmds, rcvd, closed, result, handle, events,
                   notify, outbox, subscriber, timely_cancel>>

\* select!: the sleep of sleep_time, started when the select! was entered,
\* elapses
SleepElapsed ==
    /\ pc = "select"
    /\ deadline # None
    /\ wall >= deadline[1]
    /\ notify' = TRUE
    /\ deadline' = SleepDeadline(sleep_time, wall)
    /\ UNCHANGED <<wall, clock, cmds, rcvd, closed, result, handle, events,
                   sleep_time, pc, outbox, subscriber, timely_cancel>>

---------------------------------------------------------------------------
(* Construction *)

EmptyHeap == EmptyBag

\* SchedulerHandle::new, which spawns run(): both channels are empty and open
\* and the actor waits in its first select!
SchedulerInit ==
    /\ cmds = <<>>
    /\ rcvd = 0
    /\ closed = FALSE
    /\ result = "Ok"
    /\ handle = TRUE
    /\ events = EmptyHeap
    /\ notify = FALSE
    /\ sleep_time = None
    /\ deadline = None
    /\ pc = "select"
    /\ outbox = <<>>
    /\ subscriber = TRUE
    /\ timely_cancel = {}

\* RealTimeSimClock::default(), with a scheduler on it
Init ==
    /\ wall = 0
    /\ clock = DefaultClock(0)
    /\ SchedulerInit

\* RealTimeSimClock::default() and resume(): a Running clock, with a scheduler
\* on it
RunningInit ==
    /\ wall = 0
    /\ clock = Resumed(DefaultClock(0), 0)
    /\ SchedulerInit

\* the clock under its controller alone
ClockNext ==
    \/ Tick
    \/ StartStep
    \/ \E by \in OffsetInputs : OffsetBy(by)
    \/ Pause
    \/ Resume
    \/ ClockStop

ClockSpec == Init /\ [][ClockNext]_vars

\* the scheduler with its caller, on a Running clock
Next ==
    \/ \E e \in EventInputs : Schedule(e)
    \/ \E n \in Names : CancelScheduledEvent(n)
    \/ HandleStop
    \/ DropHandle
    \/ DropSubscriber
    \/ RecvCommand
    \/ Notified
    \/ DelayTime
    \/ SleepElapsed
    \/ Tick

Spec == RunningInit /\ [][Next]_vars

\* a step of the spawned task: a ready branch of its select! runs, or the
\* drain goes on past its await
ActorStep == RecvCommand \/ Notified \/ DelayTime \/ SleepElapsed

\* The scheduling the runtime gives: the spawned actor task is polled whenever
\* a branch of its select! is ready and then runs to its next await, and wall
\* time passes.  Nothing obliges the caller to call the handle.
Fairness == WF_vars(ActorStep) /\ WF_vars(Tick)

FairSpec == Spec /\ Fairness

\* the scheduler with a caller that only schedules: no Cancel, no Stop, and the
\* subscriber stays
DeliveryNext ==
    \/ \E e \in EventInputs : Schedule(e)
    \/ RecvCommand
    \/ Notified
    \/ DelayTime
    \/ SleepElapsed
    \/ Tick

DeliverySpec == RunningInit /\ [][DeliveryNext]_vars /\ Fairness

\* the scheduler with a caller that only schedules, on a clock that its
\* controller pauses, resumes and stops
PausedNext ==
    \/ \E e \in EventInputs : Schedule(e)
    \/ RecvCommand
    \/ Notified
    \/ DelayTime
    \/ SleepElapsed
    \/ Tick
    \/ Pause
    \/ Resume
    \/ ClockStop

PausedSpec == RunningInit /\ [][PausedNext]_vars

---------------------------------------------------------------------------
(* The clock's claims, under ClockSpec *)

Frozen(c) == c.state \in {"Stopped", "Paused"}

\* C7: while the clock is Stopped or Paused, now() does not change as wall
\* time passes with no control operation in between.
C7_FrozenNowIsConstant ==
    [][(Frozen(clock) /\ clock' = clock) => Now(clock', wall') = Now(clock, wall)]_vars

\* C8 (as claimed): Running is entered only from Paused, by resume(); a
\* Running clock becomes Paused only by pause() or start(); a Stopped clock
\* leaves Stopped only by start().
C8_SpecifiedStateMachine ==
    [][/\ (clock'.state = "Running" /\ clock.state # "Running")
            => (clock.state = "Paused" /\ Resume)
       /\ (clock'.state = "Paused" /\ clock.state = "Running")
            => (Pause \/ StartStep)
       /\ (clock.state = "Stopped" /\ clock'.state # "Stopped") => StartStep]_vars

\* C8 (amended): the clock is constructed Stopped, and each operation sets the
\* state whatever it was: start() and pause() give Paused, resume() gives
\* Running, stop() gives Stopped; offset_by() and the passing of time leave it.
C8_TotalStateMachine ==
    /\ clock.state = "Stopped"
    /\ [][/\ StartStep => clock'.state = "Paused"
          /\ Pause => clock'.state = "Paused"
          /\ Resume => clock'.state = "Running"
          /\ ClockStop => clock'.state = "Stopped"
          /\ (\E by \in OffsetInputs : OffsetBy(by)) => clock'.state = clock.state
          /\ Tick => clock'.state = clock.state]_vars

\* C8 witness: a clock that was constructed and never started or paused is
\* Running: resume() took it there from Stopped.
C8_Witness ==
    /\ clock.state = "Running"
    /\ clock.pause_start_time = None
    /\ clock.paused_time = 0
    /\ wall > 0
    /\ Now(clock, wall) = wall * MicrosPerMilli

\* C9: pause() on a Paused clock leaves now() and elapsed() at the values
\* frozen at the first pause(), and keeps the first pause's anchor.
C9_PauseWhilePausedKeepsTime ==
    [][(clock.state = "Paused" /\ clock.pause_start_time # None /\ Pause)
        => /\ Now(clock', wall') = Now(clock, wall)
           /\ Elapsed(clock', wall') = Elapsed(clock, wall)
           /\ clock'.pause_start_time = clock.pause_start_time]_vars

\* C10: resume() of a Paused clock at wall instant w2, paused since w1, adds
\* w2 - w1 to the accumulated paused time, clears the anchor, and leaves now()
\* and elapsed() at the values frozen at w1.
C10_ResumeExcludesPause ==
    [][(clock.state = "Paused" /\ clock.pause_start_time # None /\ Resume)
        => /\ clock'.paused_time = clock.paused_time + (wall - clock.pause_start_time[1])
           /\ clock'.pause_start_time = None
           /\ clock'.state = "Running"
           /\ Now(clock', wall') = Now(clock, clock.pause_start_time[1])
           /\ Now(clock', wall') = Now(clock, wall)
           /\ Elapsed(clock', wall') = Elapsed(clock, wall)]_vars

\* C10 witness: a Running clock that was resumed after a pause: its paused
\* time is more than start() can set, and its now() lags the wall time by it.
C10_Witness ==
    /\ clock.state = "Running"
    /\ clock.pause_start_time = None
    /\ clock.simulation_start_time = 0
    /\ clock.relative_start_time = 0
    /\ clock.time_dilation = [num |-> 1, den |-> 1]
    /\ \A ept \in PauseTimeInputs : clock.paused_time > ept
    /\ Now(clock, wall) = (wall - clock.paused_time) * MicrosPerMilli

C12_DilationPositive ==
    clock.time_dilation.num > 0 /\ clock.time_dilation.den > 0

\* now() is a time the u64 addition did not wrap to
Unwrapped(c, w) == Now(c, w) >= 0

\* C13: while the clock is Running, now() does not decrease from one state to
\* the next, whatever operation or passing of time lies between them.  Stated
\* where the claim is at its most favourable: for a clock with a positive
\* dilation whose now() has not wrapped.
C13_RunningNowMonotonic ==
    [][(/\ clock.state = "Running"
        /\ clock'.state = "Running"
        /\ clock.time_dilation.num > 0
        /\ Unwrapped(clock, wall)
        /\ Unwrapped(clock', wall'))
       => SimLe(Now(clock, wall), Now(clock', wall'))]_vars

---------------------------------------------------------------------------
(* The scheduler's claims, under Spec, FairSpec and DeliverySpec *)

\* the notifications a step sends
NewlySent == SubSeq(outbox', Len(outbox) + 1, Len(outbox'))

\* notifications in non-decreasing execution-time order
InTimeOrder(sent) ==
    \A i \in 1..(Len(sent) - 1) : SimLe(sent[i].time, sent[i + 1].time)

\* no notification sent so far is later than t
NotBeforeSent(sent, t) == sent = <<>> \/ SimLe(sent[Len(sent)].time, t)

\* the step receives a Schedule of an event that is earlier than a
\* notification already sent
ReceivesOverdue ==
    /\ rcvd' = rcvd + 1
    /\ cmds[rcvd + 1].type = "Schedule"
    /\ ~NotBeforeSent(outbox, cmds[rcvd + 1].event.time)

\* C1: notifications are sent in non-decreasing execution-time order, and
\* every pending event is no earlier than the last one sent, for as long as no
\* event is scheduled that is earlier than a notification already sent; so of
\* two events that are both in the heap before either is due, the earlier is
\* notified first.
C1_FiringOrder ==
    [][(/\ InTimeOrder(outbox)
        /\ \A e \in BagToSet(events) : NotBeforeSent(outbox, e.time)
        /\ ~ReceivesOverdue)
        => /\ InTimeOrder(outbox')
           /\ \A e \in BagToSet(events') : NotBeforeSent(outbox', e.time)]_vars

\* C1 witness: A (due at MaxTime ms) was scheduled before B (due at 1 ms),
\* both one-shot, and the notifications are B, A.
C1_Witness ==
    /\ rcvd = 2
    /\ cmds[1] = ScheduleCmd([name |-> "A", time |-> MaxTime * MicrosPerMilli, period |-> 0])
    /\ cmds[2] = ScheduleCmd([name |-> "B", time |-> MicrosPerMilli, period |-> 0])
    /\ MaxTime > 1
    /\ outbox = <<[name |-> "B", time |-> MicrosPerMilli],
                  [name |-> "A", time |-> MaxTime * MicrosPerMilli]>>

\* C2 (as claimed): once a name is cancelled on the handle before any event
\* scheduled under it is due on the clock, no notification carries that name.
C2_TimelyCancelSilences ==
    \A n \in timely_cancel : \A k \in 1..Len(outbox) : outbox[k].name # n

\* the actor has received Cancel(n) and no Schedule of that name since
CancelReceived(n) ==
    \E i \in 1..rcvd :
       /\ cmds[i] = CancelCmd(n)
       /\ \A j \in (i + 1)..rcvd :
             ~(cmds[j].type = "Schedule" /\ cmds[j].event.name = n)

\* C2 (amended): from the moment the actor has received Cancel(name), and
\* until it receives a Schedule of that name again, the heap holds no entry of
\* that name and no notification carrying it is sent.
C2_ReceivedCancelSilences ==
    [][\A n \in Names :
          CancelReceived(n)
             => /\ \A e \in BagToSet(events) : e.name # n
                /\ \A k \in 1..Len(NewlySent) : NewlySent[k].name # n]_vars

\* C2 witness: an event was scheduled and cancelled, the actor received both,
\* the event's execution time has passed, the heap has been drained since,
\* and nothing was sent.
C2_Witness ==
    /\ rcvd = 2
    /\ cmds[1].type = "Schedule"
    /\ cmds[2] = CancelCmd(cmds[1].event.name)
    /\ SimLe(cmds[1].event.time, Now(clock, wall))
    /\ pc = "select"
    /\ ~notify
    /\ sleep_time = None
    /\ outbox = <<>>

\* stop() has been called on the handle and the channel took the command
StopSent == \E i \in 1..Len(cmds) : cmds[i] = StopCmd

\* C3 (as claimed): after stop() has been called, no notification is sent.
C3_NothingSentAfterStopCall ==
    [][StopSent => outbox' = outbox]_vars

\* C3 (amended): once the actor has received the Stop command the heap is
\* empty and stays empty, and no notification is sent.
C3_NothingSentAfterStopReceived ==
    /\ [](pc = "done" => events = EmptyBag)
    /\ [][pc = "done" => (outbox' = outbox /\ events' = events /\ pc' = "done")]_vars

\* C3 witness: the actor has stopped with nothing sent, after receiving the
\* Schedule of an event whose execution time the clock has now reached.
C3_Witness ==
    /\ pc = "done"
    /\ outbox = <<>>
    /\ \E i \in 1..rcvd :
          /\ cmds[i].type = "Schedule"
          /\ SimLe(cmds[i].event.time, Now(clock, wall))

\* C4: the channel takes no Schedule command after a Stop command: every
\* schedule() after a stop() fails.
C4_ScheduleAfterStopFails ==
    \A i \in 1..Len(cmds) : \A j \in (i + 1)..Len(cmds) :
       cmds[i] = StopCmd => cmds[j].type # "Schedule"

\* C5: on a Running clock, a recurring event that the actor received, with no
\* Cancel of its name and no Stop received and the actor running (no send has
\* failed), is pending in the heap: its recurrence has not ended.
C5_RecurrenceStaysPending ==
    \A i \in 1..rcvd :
       (/\ clock.state = "Running"
        /\ cmds[i].type = "Schedule"
        /\ cmds[i].event.period > 0
        /\ \A j \in 1..rcvd : cmds[j] # StopCmd /\ cmds[j] # CancelCmd(cmds[i].event.name)
        /\ pc \in {"select", "delay"})
       => \E e \in BagToSet(events) : e.name = cmds[i].event.name

\* the Schedule and Cancel commands received, by position
ScheduleAt == {i \in 1..rcvd : cmds[i].type = "Schedule"}
CancelAt == {i \in 1..rcvd : cmds[i].type = "Cancel"}

\* the scheduled events have distinct names, and each Cancel names a distinct
\* event scheduled before it
UniquelyNamed ==
    /\ \A i, j \in ScheduleAt : cmds[i].event.name = cmds[j].event.name => i = j
    /\ \A i, j \in CancelAt : cmds[i].name = cmds[j].name => i = j
    /\ \A i \in CancelAt : \E j \in ScheduleAt : j < i /\ cmds[j].event.name = cmds[i].name

\* the step receives Cancel(n)
ReceivesCancel(n) == rcvd' = rcvd + 1 /\ cmds[rcvd + 1] = CancelCmd(n)

\* C6: receiving Cancel(name) removes every heap entry of that name and no
\* other; and after N Schedules of uniquely named events and M Cancels of
\* distinct scheduled names, with nothing popped yet, the heap holds N - M
\* entries: the scheduled events that were not cancelled, once each.
C6_CancelRemovesExactly ==
    /\ [][\A n \in Names :
             ReceivesCancel(n)
                => \A e \in BagToSet(events) \cup BagToSet(events') :
                      CopiesIn(e, events') = IF e.name = n THEN 0 ELSE CopiesIn(e, events)]_vars
    /\ []((/\ UniquelyNamed
           /\ pc \in {"select", "delay"}
           /\ outbox = <<>>)
          => /\ BagCardinality(events) = Cardinality(ScheduleAt) - Cardinality(CancelAt)
             /\ events = SetToBag({cmds[i].event : i \in
                              {j \in ScheduleAt : \A k \in CancelAt :
                                                     cmds[k].name # cmds[j].event.name}}))

\* C6 witness: two events scheduled, one of them cancelled, one entry left.
C6_Witness ==
    /\ rcvd = 3
    /\ UniquelyNamed
    /\ Cardinality(ScheduleAt) = 2
    /\ Cardinality(CancelAt) = 1
    /\ outbox = <<>>
    /\ BagCardinality(events) = 1

\* the actor's run() has returned
Terminated == pc \in {"done", "failed"}

\* C14: once the handle, the only command sender, has been dropped, run()
\* eventually returns.
C14_ExitsAfterHandleDrop == (~handle) ~> Terminated

\* a call on the handle: schedule, cancel_scheduled_event or stop
HandleCall ==
    \/ \E e \in EventInputs : Schedule(e)
    \/ \E n \in Names : CancelScheduledEvent(n)
    \/ HandleStop

\* the heap holds an entry that is due at the clock's now()
SomeDue == \E e \in BagToSet(events) : SimLe(e.time, Now(clock, wall))

\* C15: a drain that finds a due event and no subscriber ends run() with the
\* error at that firing, with nothing sent; run() ends that way in no other
\* step; and from then on nothing is sent, no command is received, and every
\* call on the handle fails with nothing queued.
C15_SendFailureEndsRun ==
    /\ [][(Notified /\ ~subscriber /\ SomeDue)
             => (pc' = "failed" /\ outbox' = outbox /\ closed')]_vars
    /\ [][(pc # "failed" /\ pc' = "failed")
             => (Notified /\ ~subscriber /\ SomeDue)]_vars
    /\ [][pc = "failed"
             => /\ pc' = "failed"
                /\ outbox' = outbox
                /\ rcvd' = rcvd
                /\ cmds' = cmds
                /\ HandleCall => result' = "Err"]_vars

\* C15 witness: run() has ended on a failed send after an earlier notification
\* was delivered, a command is left in the channel unreceived, and a call on
\* the handle has failed since.
C15_Witness ==
    /\ pc = "failed"
    /\ ~subscriber
    /\ outbox # <<>>
    /\ rcvd < Len(cmds)
    /\ result = "Err"

\* C16: once run() has returned, after a Stop command or a failed send, the
\* command receiver is closed, and every schedule, cancel_scheduled_event and
\* stop call returns the error and leaves the channel as it was.
C16_CallsFailAfterTermination ==
    /\ [](Terminated => closed)
    /\ [][(Terminated /\ HandleCall) => (result' = "Err" /\ cmds' = cmds)]_vars
    /\ [][Terminated => (cmds' = cmds /\ rcvd' = rcvd)]_vars

\* C16 witness: the actor processed a Stop command, every command the channel
\* took has been received, and a later call on the handle returned the error.
C16_Witness ==
    /\ pc = "done"
    /\ rcvd = Len(cmds)
    /\ cmds[rcvd] = StopCmd
    /\ result = "Err"

\* the execution times events are scheduled at
EventTimes == {e.time : e \in EventInputs}

\* the Schedule commands received so far for events of name n due at t
ScheduledAt(n, t) ==
    {i \in 1..rcvd : /\ cmds[i].type = "Schedule"
                     /\ cmds[i].event.name = n
                     /\ cmds[i].event.time = t}

\* the notifications sent so far that carry name n and time t
NotifiedAt(n, t) ==
    {k \in 1..Len(outbox) : outbox[k] = [name |-> n, time |-> t]}

\* a received Schedule of (n, t) has no notification yet
Owed(n, t) == Cardinality(NotifiedAt(n, t)) < Cardinality(ScheduledAt(n, t))

\* C17: with a Running clock, a live subscriber, no Cancel and no Stop, every
\* event whose Schedule command the actor has processed is eventually
\* notified, with its name and execution time and not before that time, by
\* the actor's own steps and the passing of time: whenever a processed event
\* lacks its notification, a state follows in which none does.
C17_EventuallyDelivered ==
    /\ (\E n \in Names, t \in EventTimes : Owed(n, t))
          ~> (\A n \in Names, t \in EventTimes : ~Owed(n, t))
    /\ [][\A k \in 1..Len(NewlySent) : SimLe(NewlySent[k].time, Now(clock, wall))]_vars

\* C17 witness: the one event scheduled, A, was received before it was due,
\* the actor went to sleep for it, and it has been notified: all commands are
\* received, the heap is empty again and the timer is off.
C17_Witness ==
    /\ cmds = <<ScheduleCmd([name |-> "A", time |-> MaxTime * MicrosPerMilli, period |-> 0])>>
    /\ rcvd = 1
    /\ outbox = <<[name |-> "A", time |-> MaxTime * MicrosPerMilli]>>
    /\ events = EmptyBag
    /\ sleep_time = None
    /\ pc = "select"

\* a drain ends: the while-let loop found the heap empty, or broke at an entry
\* that is not due and stored its delay
DrainEnds == (Notified /\ pc' = "select") \/ DelayTime

\* C18: at the end of a drain sleep_time is None if and only if the heap is
\* empty, and otherwise it is the delay_time, read from the clock in that
\* drain, of the earliest entry left in the heap.
C18_SleepReflectsHeap ==
    [][DrainEnds
         => /\ (sleep_time' = None) <=> (events' = EmptyBag)
            /\ events' # EmptyBag
                 => \E e \in Peek(events') :
                       sleep_time' = Some(DelayTimeOf(clock, wall, e.time))]_vars

\* C18 witness: a drain has notified an event and left a later one in the
\* heap, and the actor is back in select! with the timer set to the positive
\* delay of that entry.
C18_Witness ==
    /\ pc = "select"
    /\ ~notify
    /\ outbox # <<>>
    /\ events # EmptyBag
    /\ sleep_time # None
    /\ sleep_time[1] > 0
    /\ \E e \in Peek(events) : sleep_time = Some(DelayTimeOf(clock, wall, e.time))

\* the number of heap entries that are copies of an event in S
RECURSIVE SumCopies(_, _)
SumCopies(S, heap) ==
    IF S = {} THEN 0
    ELSE LET x == CHOOSE y \in S : TRUE
         IN  CopiesIn(x, heap) + SumCopies(S \ {x}, heap)

\* the distinct events of a heap that are due at now
DueIn(heap, now) == {e \in BagToSet(heap) : SimLe(e.time, now)}

\* how many times a notification occurs in a sequence of them
Occurrences(sent, n) == Cardinality({k \in 1..Len(sent) : sent[k] = n})

\* C19: a drain whose sends succeed pops every entry that is due at the now it
\* sampled, once: it sends exactly one notification per popped entry, with the
\* entry's name and execution time, and the heap it leaves is the old heap
\* without the due entries and with next_time() of exactly those popped
\* entries whose next execution time is greater than that now, once each.  A
\* drain whose first send fails has popped that one entry, by the same rule,
\* and sent nothing.
C19_OnePopOneNotification ==
    [][Notified =>
         LET now == Now(clock, wall)
             due == DueIn(events, now)
         IN  IF pc' # "failed"
             THEN /\ Len(NewlySent) = SumCopies(due, events)
                  /\ \A e \in due :
                        Occurrences(NewlySent, Notification(e)) =
                           SumCopies({d \in due : Notification(d) = Notification(e)}, events)
                  /\ \A y \in BagToSet(events) \cup BagToSet(events') :
                        CopiesIn(y, events') =
                           (IF y \in due THEN 0 ELSE CopiesIn(y, events))
                           + SumCopies({x \in due : NextTime(x) = y /\ SimLt(now, y.time)},
                                       events)
             ELSE /\ NewlySent = <<>>
                  /\ \E t \in due :
                        events' = (events (-) SetToBag({t}))
                                  (+) (IF SimLt(now, NextTime(t).time)
                                       THEN SetToBag({NextTime(t)})
                                       ELSE EmptyBag)]_vars

\* C19 witness: a drain popped the recurring B when it was due and A was not:
\* B was notified once, its next occurrence is in the heap once, beside A.
C19_Witness ==
    /\ rcvd = 2
    /\ \E i, j \in 1..2 :
          /\ cmds[i] = ScheduleCmd([name |-> "B", time |-> MicrosPerMilli,
                                    period |-> MicrosPerMilli])
          /\ cmds[j] = ScheduleCmd([name |-> "A", time |-> MaxTime * MicrosPerMilli,
                                    period |-> 0])
    /\ outbox = <<[name |-> "B", time |-> MicrosPerMilli]>>
    /\ events = SetToBag({[name |-> "B", time |-> 2 * MicrosPerMilli,
                           period |-> MicrosPerMilli],
                          [name |-> "A", time |-> MaxTime * MicrosPerMilli,
                           period |-> 0]})

\* C20: notifications are sent by drains only; every notification a drain
\* sends is for an execution time that is not later than the now the drain
\* read from the clock; and every entry later than that now is still in the
\* heap after the drain.
C20_NoEarlyFiring ==
    /\ [][Notified =>
            LET now == Now(clock, wall)
            IN  /\ \A k \in 1..Len(NewlySent) : SimLe(NewlySent[k].time, now)
                /\ \A e \in BagToSet(events) :
                      SimLt(now, e.time) => CopiesIn(e, events') >= CopiesIn(e, events)]_vars
    /\ [][outbox' # outbox => Notified]_vars

\* C20 witness: at 1 ms a drain has notified B, due at 1 ms, and left A, which
\* is due later, in the heap with the timer set for it.
C20_Witness ==
    /\ wall = 1
    /\ outbox = <<[name |-> "B", time |-> MicrosPerMilli]>>
    /\ events = SetToBag({[name |-> "A", time |-> MaxTime * MicrosPerMilli, period |-> 0]})
    /\ SimLt(Now(clock, wall), MaxTime * MicrosPerMilli)
    /\ pc = "select"
    /\ sleep_time = Some(MaxTime - 1)

---------------------------------------------------------------------------
(* The clock's arithmetic, under ClockSpec *)

\* C21: in every reachable clock state now() returns without an overflow of
\* its addition, and the time it returns is not a negative running time cast
\* to u64.  Stated for the clocks that hold a positive dilation.
C21_NowIsValid ==
    clock.time_dilation.num > 0
       => /\ ~AddOverflows(clock.relative_start_time, ExecutionMicros(clock, wall))
          /\ Unwrapped(clock, wall)

---------------------------------------------------------------------------
(* The scheduler on a paused clock, under PausedSpec *)

\* C22: while the clock holds a pause anchor (it is Paused, or Stopped by
\* stop()) and no operation changes it, whatever wall time passes and whatever
\* the actor does, no notification is sent for an execution time later than
\* the now() of the instant the pause began, and every entry later than that
\* stays in the heap; and at any time a notification is sent only for an
\* execution time that the clock's now() has reached.
C22_PausedClockHoldsEvents ==
    /\ [][(clock.pause_start_time # None /\ clock' = clock)
            => LET frozen == Now(clock, clock.pause_start_time[1])
               IN  /\ \A k \in 1..Len(NewlySent) : SimLe(NewlySent[k].time, frozen)
                   /\ \A e \in BagToSet(events) :
                         SimLt(frozen, e.time)
                            => CopiesIn(e, events') >= CopiesIn(e, events)]_vars
    /\ [][\A k \in 1..Len(NewlySent) : SimLe(NewlySent[k].time, Now(clock, wall))]_vars

\* C22 witness: the clock was paused a millisecond before A was due and is
\* still Paused at the wall instant A would have been due at; a drain at that
\* instant has left A in the heap and set the timer again, by the frozen
\* now(), and nothing has been sent.
C22_Witness ==
    /\ clock.state = "Paused"
    /\ clock.pause_start_time = Some(MaxTime - 1)
    /\ wall = MaxTime
    /\ cmds = <<ScheduleCmd([name |-> "A", time |-> MaxTime * MicrosPerMilli, period |-> 0])>>
    /\ rcvd = 1
    /\ events = SetToBag({[name |-> "A", time |-> MaxTime * MicrosPerMilli, period |-> 0]})
    /\ outbox = <<>>
    /\ pc = "select"
    /\ ~notify
    /\ sleep_time = Some(1)
    /\ deadline = Some(MaxTime + 1)

---------------------------------------------------------------------------
(* The actor's wake-ups and drains, under Spec *)

\* C23: whenever the actor waits in select! with a non-empty heap, the Notify
\* holds a permit or the sleep is armed with a finite duration: sleep_time is
\* Some and the pending sleep has a deadline.
C23_NoLostWakeup ==
    (pc = "select" /\ events # EmptyBag)
       => (notify \/ (sleep_time # None /\ deadline # None))

\* C23 witness: the actor waits in select! with an entry in the heap, the
\* timer off since the last drain found the heap empty, and the permit of a
\* Schedule received since then pending.
C23_Witness ==
    /\ pc = "select"
    /\ events # EmptyBag
    /\ outbox # <<>>
    /\ sleep_time = None
    /\ deadline = None
    /\ notify

\* C24: a drain ends, in the select!, at delay_time or with the error, after
\* no more pops than the heap had entries when it began: of each name and
\* execution time it notifies no more than the heap held, and every entry it
\* added to the heap is later than the now it sampled, so was not popped in
\* that drain.  That holds for events whose next_time() does not advance the
\* execution time as for those whose next_time() does.
C24_DrainTerminates ==
    [][Notified =>
         LET now == Now(clock, wall)
         IN  /\ pc' \in {"select", "delay", "failed"}
             /\ Len(NewlySent) <= BagCardinality(events)
             /\ \A k \in 1..Len(NewlySent) :
                   Occurrences(NewlySent, NewlySent[k]) <=
                      SumCopies({e \in BagToSet(events) : Notification(e) = NewlySent[k]},
                                events)
             /\ \A y \in BagToSet(events') :
                   CopiesIn(y, events') > CopiesIn(y, events) => SimLt(now, y.time)]_vars

\* C24 witness: B and A, both with a next_time() that does not advance, were
\* found due and popped once each, and the last drain ended with the heap
\* empty and the timer off.
C24_Witness ==
    /\ rcvd = 2
    /\ \E i, j \in 1..2 :
          /\ cmds[i] = ScheduleCmd([name |-> "B", time |-> MicrosPerMilli, period |-> 0])
          /\ cmds[j] = ScheduleCmd([name |-> "A", time |-> MaxTime * MicrosPerMilli,
                                    period |-> 0])
    /\ outbox = <<[name |-> "B", time |-> MicrosPerMilli],
                  [name |-> "A", time |-> MaxTime * MicrosPerMilli]>>
    /\ events = EmptyBag
    /\ pc = "select"
    /\ sleep_time = None
====
